---------------------------- MODULE Spec2Model ----------------------------
(***************************************************************************)
(* Model of src/dsp.rs: the AudioProcessor trait and its one implementor,  *)
(* GainProcessor, whose process() multiplies every input sample by         *)
(* `gain` (negated when `invert` is set) and stores the product in the     *)
(* output slice, bounded by the shorter of the two slices.                 *)
(*                                                                         *)
(* Samples are Rust f32 values.  They are modelled bit for bit as IEEE-754 *)
(* binary32 words (sign, biased exponent, fraction); the multiply is the   *)
(* correctly rounded (round-to-nearest, ties-to-even) binary32 product,    *)
(* including signed zeros, subnormals, overflow to infinity and NaN.       *)
(* The payload and sign of a NaN *result* are not specified by Rust; the   *)
(* model produces the one canonical quiet NaN for every NaN result.        *)
(***************************************************************************)
EXTENDS Integers, Sequences, FiniteSets, TLC

(***************************************************************************)
(* f32: the binary32 format.                                               *)
(***************************************************************************)
FracBits == 23
ExpBits == 8

Hidden == 2^FracBits
SigLimit == 2^(FracBits + 1)
ExpAll == 2^ExpBits - 1
Bias == 2^(ExpBits - 1) - 1
MinQ == 1 - Bias - FracBits

F32(s, e, f) == [sign |-> s, exp |-> e, frac |-> f]

IsNaN(x) == x.exp = ExpAll /\ x.frac # 0
IsInf(x) == x.exp = ExpAll /\ x.frac = 0
IsZero(x) == x.exp = 0 /\ x.frac = 0

QNaN == F32(0, ExpAll, 2^(FracBits - 1))
Inf(s) == F32(s, ExpAll, 0)
Zero(s) == F32(s, 0, 0)

\* Unary minus on f32 (`-self.gain`): flips the sign bit, nothing else.
FNeg(x) == [x EXCEPT !.sign = 1 - @]

\* Integer significand and power-of-two exponent: |x| = Sig(x) * 2^Exp2(x).
Sig(x) == IF x.exp = 0 THEN x.frac ELSE Hidden + x.frac
Exp2(x) == (IF x.exp = 0 THEN 1 ELSE x.exp) - Bias - FracBits

Max(a, b) == IF a >= b THEN a ELSE b

(***************************************************************************)
(* The rounding steps are TLA+ functions rather than operators: a function *)
(* is applied to the value of its argument, so each intermediate result is *)
(* computed once.                                                          *)
(***************************************************************************)
\* Number of significant bits of n, 0 <= n < 2^(FracBits+1).
BitLen[n \in Nat] ==
    CHOOSE k \in 0..(FracBits + 1) : n < 2^k /\ (k = 0 \/ n >= 2^(k - 1))

\* The exact product of two significands, as two (FracBits+1)-bit limbs:
\* a * b = hi * SigLimit + lo.  Computed on half-width pieces so that no
\* intermediate exceeds 32 bits.
WideMul[a \in Nat, b \in Nat] ==
    LET L == 2^((FracBits + 1) \div 2)
        a1 == a \div L
        a0 == a % L
        b1 == b \div L
        b0 == b % L
        mid == a1 * b0 + a0 * b1
        lowfull == a0 * b0 + (mid % L) * L
    IN  [hi |-> a1 * b1 + (mid \div L) + (lowfull \div SigLimit),
         lo |-> lowfull % SigLimit]

\* kept + (discarded part), rounded to nearest, ties to even: rel is -1, 0
\* or 1 as the discarded part is below, at, or above one half.
RoundNearestEven[kept \in Nat, rel \in {-1, 0, 1}] ==
    IF rel > 0 \/ (rel = 0 /\ kept % 2 = 1) THEN kept + 1 ELSE kept

Cmp[a \in Nat, b \in Nat] == IF a < b THEN -1 ELSE IF a = b THEN 0 ELSE 1

\* (hi * SigLimit + lo) shifted right by sh >= 1 bits and rounded.
ShiftRound[hi \in Nat, lo \in Nat, sh \in Nat] ==
    IF sh <= FracBits + 1
    THEN RoundNearestEven[hi * 2^(FracBits + 1 - sh) + (lo \div 2^sh),
                          Cmp[lo % 2^sh, 2^(sh - 1)]]
    ELSE IF sh <= 2 * (FracBits + 1)
    THEN RoundNearestEven[hi \div 2^(sh - (FracBits + 1)),
             IF hi % 2^(sh - (FracBits + 1)) = 2^(sh - (FracBits + 2))
             THEN (IF lo > 0 THEN 1 ELSE 0)
             ELSE Cmp[hi % 2^(sh - (FracBits + 1)),
                      2^(sh - (FracBits + 2))]]
    ELSE 0

\* The binary32 word for sign s and magnitude r * 2^q, 0 <= r <= SigLimit,
\* q >= MinQ, r < Hidden only when q = MinQ.
Pack[s \in {0, 1}, r \in Nat, q \in Int] ==
    IF r = SigLimit
    THEN (IF q + 1 + Bias + FracBits >= ExpAll THEN Inf(s)
          ELSE F32(s, q + 1 + Bias + FracBits, 0))
    ELSE IF r < Hidden THEN F32(s, 0, r)
    ELSE IF q + Bias + FracBits >= ExpAll THEN Inf(s)
    ELSE F32(s, q + Bias + FracBits, r - Hidden)

\* The exact value (hi * SigLimit + lo) * 2^e, nonzero and len bits long,
\* rounded to the quantum 2^q.
RoundAt[s \in {0, 1}, hi \in Nat, lo \in Nat, e \in Int, q \in Int] ==
    IF q <= e THEN Pack[s, lo * 2^(e - q), q]
    ELSE Pack[s, ShiftRound[hi, lo, q - e], q]

\* Round the exact value (hi * SigLimit + lo) * 2^e, nonzero, to binary32:
\* the quantum keeps FracBits+1 significant bits, but is never below 2^MinQ.
RoundPack[s \in {0, 1}, hi \in Nat, lo \in Nat, e \in Int] ==
    RoundAt[s, hi, lo, e,
            Max((IF hi > 0 THEN BitLen[hi] ELSE BitLen[lo] - (FracBits + 1))
                + e, MinQ)]

\* f32 `*`.
FMul(x, y) ==
    LET s == (x.sign + y.sign) % 2
    IN  IF IsNaN(x) \/ IsNaN(y) THEN QNaN
        ELSE IF IsInf(x) \/ IsInf(y)
        THEN (IF IsZero(x) \/ IsZero(y) THEN QNaN ELSE Inf(s))
        ELSE IF IsZero(x) \/ IsZero(y) THEN Zero(s)
        ELSE RoundPack[s, WideMul[Sig(x), Sig(y)].hi,
                       WideMul[Sig(x), Sig(y)].lo, Exp2(x) + Exp2(y)]

\* f32 `==` (PartialEq): NaN equals nothing, +0.0 equals -0.0.
FEq(x, y) ==
    /\ ~IsNaN(x)
    /\ ~IsNaN(y)
    /\ \/ x = y
       \/ IsZero(x) /\ IsZero(y)

(***************************************************************************)
(* Values the model draws from.  0.5, -0.2, 0.0, 1.0, 2.0 are the values   *)
(* of the unit tests; -infinity, NaN, -0.3 and 0.75 are added so that an   *)
(* infinite sample, a non-number, rounding, a negative gain and a non-zero *)
(* initial output occur.                                                   *)
(***************************************************************************)
One == F32(0, Bias, 0)
Two == F32(0, Bias + 1, 0)
Half == F32(0, Bias - 1, 0)
NegFifth == F32(1, Bias - 3, 5033165)
NegThreeTenths == F32(1, Bias - 2, 1677722)
ThreeQuarters == F32(0, Bias - 1, 2^(FracBits - 1))

Samples == {Zero(0), Half, NegFifth, Inf(1), QNaN}
Gains == {One, Two, NegThreeTenths}
OutInit == {Zero(0), ThreeQuarters}

MaxLen == 2

SeqsUpTo(S, n) == UNION {[1..k -> S] : k \in 0..n}
Inputs == SeqsUpTo(Samples, MaxLen)
Outputs == SeqsUpTo(OutInit, MaxLen)
Fill(v, n) == [k \in 1..n |-> v]
Min(a, b) == IF a <= b THEN a ELSE b

(***************************************************************************)
(* State.                                                                  *)
(*   proc        the live GainProcessor values, by processor id            *)
(*   pc          "idle", "loop" (inside process), "returned" (process has  *)
(*               just returned), "panicked" (an index was out of bounds)   *)
(*   self        the processor whose process() is running or ran last      *)
(*   input       the `input` slice of that call                            *)
(*   output      the `output` slice of that call                           *)
(*   multiplier  the local of process(): <<m>> inside the call, else <<>>  *)
(*   i           the enumerate() index of the next item of the iterator    *)
(* History variables, read by no action's guard:                           *)
(*   entry       fields and buffers as they were when the call started     *)
(*               (NoEntry while pc = "idle")                               *)
(*   visited     the indices the loop body has run for, in order           *)
(*   touched     the indices `output[..]` has been indexed with            *)
(*   lastMult    per processor, <<m>> for the multiplier of its previous   *)
(*               call, <<>> before its first                               *)
(*   vec, result, origin                                                   *)
(*               the scenario data of SpecPair and SpecChain (see there)   *)
(***************************************************************************)
VARIABLES proc, pc, self, input, output, multiplier, i,
          entry, visited, touched, lastMult, vec, result, origin

vars == <<proc, pc, self, input, output, multiplier, i,
          entry, visited, touched, lastMult, vec, result, origin>>

scenario == <<vec, result, origin>>

\* GainProcessor::new
New(g, v) == [gain |-> g, invert |-> v]

Snapshot(p, in, out) ==
    [gain |-> proc[p].gain, invert |-> proc[p].invert,
     input |-> in, output |-> out]

\* The value of `entry` while no call is running or has just returned.
NoEntry ==
    [gain |-> Zero(0), invert |-> FALSE, input |-> <<>>, output |-> <<>>]

\* Faulty variants of the multiplier: the invert flag ignored; the gain
\* negated whatever the flag; the previous call's multiplier reused.
MultiplierIgnoringInvert(p) == proc[p].gain

MultiplierAlwaysNegated(p) == FNeg(proc[p].gain)

MultiplierCached(p) ==
    IF lastMult[p] # <<>> THEN lastMult[p][1]
    ELSE IF proc[p].invert THEN FNeg(proc[p].gain) ELSE proc[p].gain

\* let multiplier = if self.invert { -self.gain } else { self.gain };
EntryMultiplier(p) ==
    IF proc[p].invert THEN FNeg(proc[p].gain) ELSE proc[p].gain

\* Faulty variant: process() keeps its multiplier in self.gain.
SelfStoresMultiplier(p, m) == [proc EXCEPT ![p].gain = m]

\* *self as process() leaves it: no field is assigned.
SelfAfter(p, m) == proc

\* Faulty variant: the index is compared with the length of the input.
InBoundsOfInput(idx, out) == idx < Len(input)

\* if i < output.len()
InBounds(idx, out) == idx < Len(out)

\* Faulty variant: the sample is stored unscaled.
ScaledDropsMultiplier(sample, m) == sample

\* sample * multiplier
Scaled(sample, m) == FMul(sample, m)

\* Faulty variant: the store also zeroes what lies after the index.
StoreAtClearingRest(out, idx, v) ==
    [k \in 1..Len(out) |->
        IF k <= idx THEN out[k] ELSE IF k = idx + 1 THEN v ELSE Zero(0)]

\* output[i] = v  (idx is 0-based, within bounds)
StoreAt(out, idx, v) == [out EXCEPT ![idx + 1] = v]

\* Faulty variant: every other item is skipped.
NextIndexSkipping(idx) == idx + 2

\* enumerate(): the index of the item after idx
NextIndex(idx) == idx + 1

\* process() is entered on processor p with the caller's two slices.
Enter(p, in, out) ==
    /\ p \in DOMAIN proc
    /\ self' = p
    /\ input' = in
    /\ output' = out
    /\ multiplier' = <<EntryMultiplier(p)>>
    /\ proc' = SelfAfter(p, EntryMultiplier(p))
    /\ i' = 0
    /\ pc' = "loop"
    /\ entry' = Snapshot(p, in, out)
    /\ visited' = <<>>
    /\ touched' = {}
    /\ UNCHANGED lastMult

\* One iteration of `for (i, &sample) in input.iter().enumerate()`.
\* Indexing a slice out of bounds panics.
LoopBody ==
    /\ pc = "loop"
    /\ i < Len(input)
    /\ LET sample == input[i + 1]
       IN  IF InBounds(i, output)
           THEN /\ touched' = touched \cup {i}
                /\ IF i < Len(output)
                   THEN /\ output' = StoreAt(output, i,
                                             Scaled(sample, multiplier[1]))
                        /\ pc' = "loop"
                        /\ i' = NextIndex(i)
                   ELSE /\ pc' = "panicked"
                        /\ UNCHANGED <<output, i>>
           ELSE /\ i' = NextIndex(i)
                /\ UNCHANGED <<output, pc, touched>>
    /\ visited' = Append(visited, i)
    /\ UNCHANGED <<proc, self, input, multiplier, entry, lastMult, scenario>>

\* The iterator is exhausted and process() returns.
Exit ==
    /\ pc = "loop"
    /\ i >= Len(input)
    /\ pc' = "returned"
    /\ lastMult' = [lastMult EXCEPT ![self] = multiplier]
    /\ multiplier' = <<>>
    /\ i' = 0
    /\ UNCHANGED <<proc, self, input, output, entry, visited, touched>>

\* The caller calls process() with slices of its own.
Process(p, in, out) ==
    /\ pc = "idle"
    /\ Enter(p, in, out)
    /\ UNCHANGED scenario

Return ==
    /\ Exit
    /\ UNCHANGED scenario

\* The caller is done with the slices of the call that returned.
Release ==
    /\ pc = "returned"
    /\ pc' = "idle"
    /\ input' = <<>>
    /\ output' = <<>>
    /\ entry' = NoEntry
    /\ visited' = <<>>
    /\ touched' = {}
    /\ UNCHANGED <<proc, self, multiplier, i, lastMult, scenario>>

\* `pub gain`, `pub invert`: the caller assigns a field between calls.
SetGain(p, g) ==
    /\ pc = "idle"
    /\ p \in DOMAIN proc
    /\ g # proc[p].gain
    /\ proc' = [proc EXCEPT ![p].gain = g]
    /\ UNCHANGED <<pc, self, input, output, multiplier, i, entry, visited,
                   touched, lastMult, scenario>>

SetInvert(p, v) ==
    /\ pc = "idle"
    /\ p \in DOMAIN proc
    /\ v # proc[p].invert
    /\ proc' = [proc EXCEPT ![p].invert = v]
    /\ UNCHANGED <<pc, self, input, output, multiplier, i, entry, visited,
                   touched, lastMult, scenario>>

NoScenario ==
    /\ vec = [input |-> <<>>, output |-> <<>>]
    /\ result = <<>>
    /\ origin = <<>>

InitWith(ids, g, v) ==
    /\ proc = [p \in ids |-> New(g, v)]
    /\ pc = "idle"
    /\ self = 1
    /\ input = <<>>
    /\ output = <<>>
    /\ multiplier = <<>>
    /\ i = 0
    /\ entry = NoEntry
    /\ visited = <<>>
    /\ touched = {}
    /\ lastMult = [p \in ids |-> <<>>]

(***************************************************************************)
(* Spec: one processor, any sequence of calls and field assignments.       *)
(***************************************************************************)
Init ==
    /\ \E g \in Gains, v \in BOOLEAN : InitWith({1}, g, v)
    /\ NoScenario

Next ==
    \/ \E in \in Inputs, out \in Outputs : Process(1, in, out)
    \/ LoopBody
    \/ Return
    \/ Release
    \/ \E g \in Gains : SetGain(1, g)
    \/ \E v \in BOOLEAN : SetInvert(1, v)

Spec == Init /\ [][Next]_vars

\* process() is straight-line synchronous code: once entered it keeps
\* running until it returns.
FairSpec == Spec /\ WF_vars(LoopBody) /\ WF_vars(Return)

(***************************************************************************)
(* Properties of Spec.                                                     *)
(***************************************************************************)
\* The multiplier the specification states for gain g and invert flag v.
StatedMultiplier(g, v) == IF v THEN FNeg(g) ELSE g

\* The 1-based positions both slices of the call have.
Common == 1..Min(Len(input), Len(output))

InCall == pc \in {"loop", "returned", "panicked"}

C2_PassthroughAsStated ==
    (pc = "returned" /\ entry.gain = One /\ ~entry.invert) =>
        \A k \in Common : FEq(output[k], input[k])

\* C2, amended: with gain = 1.0 and invert = false every common index whose
\* input sample is not NaN equals the input sample, and a NaN sample gives
\* a NaN output.
C2_PassthroughExceptNaN ==
    (pc = "returned" /\ entry.gain = One /\ ~entry.invert) =>
        \A k \in Common :
            /\ ~IsNaN(input[k]) => FEq(output[k], input[k])
            /\ IsNaN(input[k]) => IsNaN(output[k])

C2_Witness ==
    /\ pc = "returned"
    /\ entry.gain = One
    /\ ~entry.invert
    /\ Len(input) >= 2
    /\ Len(output) >= 2
    /\ input[1] = NegFifth
    /\ IsNaN(input[2])
    /\ entry.output[1] = ThreeQuarters

\* C3, as stated: with gain = 1.0 and invert = true every common index of
\* the returned output equals (f32 `==`) the negated input sample.
C3_InversionAsStated ==
    (pc = "returned" /\ entry.gain = One /\ entry.invert) =>
        \A k \in Common : FEq(output[k], FNeg(input[k]))

\* C3, amended: with gain = 1.0 and invert = true every common index whose
\* input sample is not NaN equals (f32 `==`) the negated sample; the result
\* for a zero sample compares equal to zero; a NaN sample gives NaN.
C3_InversionExceptNaN ==
    (pc = "returned" /\ entry.gain = One /\ entry.invert) =>
        \A k \in Common :
            /\ ~IsNaN(input[k]) => FEq(output[k], FNeg(input[k]))
            /\ IsZero(input[k]) => FEq(output[k], Zero(0))
            /\ IsNaN(input[k]) => IsNaN(output[k])

\* An inverted zero sample (stored as -0.0) next to an inverted non-zero one.
C3_Witness ==
    /\ pc = "returned"
    /\ entry.gain = One
    /\ entry.invert
    /\ Len(input) >= 2
    /\ Len(output) >= 2
    /\ input[1] = Zero(0)
    /\ output[1] = Zero(1)
    /\ input[2] = Half
    /\ entry.output = <<ThreeQuarters, ThreeQuarters>>

\* C4: in a call with len(output) < len(input) no index >= len(output) of
\* the output is ever accessed, nothing panics, the output keeps its
\* length, and when the call has returned exactly the first len(output)
\* positions have been written, each with its scaled sample.
C4_LengthBounding ==
    (InCall /\ Len(entry.output) < Len(input)) =>
        /\ pc # "panicked"
        /\ Len(output) = Len(entry.output)
        /\ \A idx \in touched : idx < Len(output)
        /\ pc = "returned" =>
              /\ touched = {k - 1 : k \in 1..Len(output)}
              /\ \A k \in 1..Len(output) :
                    output[k] = FMul(input[k],
                                     StatedMultiplier(entry.gain, entry.invert))

\* A returned call whose input is longer than its non-empty output.
C4_Witness ==
    /\ pc = "returned"
    /\ Len(output) = 1
    /\ Len(input) >= 2
    /\ visited = [k \in 1..Len(input) |-> k - 1]
    /\ output # entry.output

\* C5: in a call with len(output) > len(input) every output index from
\* len(input) on holds the value it held before the call, during the loop
\* and after the return, and the output keeps its length.
C5_TailUntouched ==
    (InCall /\ Len(entry.output) > Len(input)) =>
        /\ Len(output) = Len(entry.output)
        /\ \A k \in (Len(input) + 1)..Len(output) :
              output[k] = entry.output[k]

\* A returned call that wrote the head of a longer output whose tail is
\* not zero.
C5_Witness ==
    /\ pc = "returned"
    /\ Len(input) >= 1
    /\ Len(output) > Len(input)
    /\ output[1] # entry.output[1]
    /\ output[Len(output)] = ThreeQuarters

\* C6: at every step of a call and after it, the input slice and the
\* processor's gain and invert are what they were when the call started.
C6_OnlyOutputMutated ==
    InCall =>
        /\ input = entry.input
        /\ proc[self].gain = entry.gain
        /\ proc[self].invert = entry.invert

\* A returned call that did change the output.
C6_Witness ==
    /\ pc = "returned"
    /\ entry.invert
    /\ Len(input) >= 1
    /\ output # entry.output
    /\ lastMult[self] = <<FNeg(entry.gain)>>

\* C8: process never panics, every call that is entered returns, and it
\* returns having run the loop body for the indices 0 .. len(input)-1,
\* each once, in ascending order.
C8_Total ==
    /\ [](pc # "panicked")
    /\ [](pc = "returned" => visited = [k \in 1..Len(input) |-> k - 1])
    /\ (pc = "loop" ~> pc = "returned")

\* A returned call on an input of the greatest length and an empty output.
C8_Witness ==
    /\ pc = "returned"
    /\ Len(input) = MaxLen
    /\ Len(output) = 0
    /\ Len(visited) = MaxLen

\* C9: the multiplier of a call is the one derived from gain and invert as
\* they are when the call is entered, also when the processor has served a
\* call before: it is fixed for the whole call, and every sample the call
\* has written is the input sample times that multiplier.
C9_MultiplierPerCall ==
    (InCall /\ lastMult[self] # <<>>) =>
        /\ pc = "loop" =>
              multiplier = <<StatedMultiplier(entry.gain, entry.invert)>>
        /\ \A idx \in touched :
              output[idx + 1] =
                  FMul(input[idx + 1],
                       StatedMultiplier(entry.gain, entry.invert))

\* A second call in progress after a field was assigned: its multiplier is
\* not the previous call's, and the sample it wrote is not what the
\* previous multiplier would have given.
C9_Witness ==
    /\ pc = "loop"
    /\ lastMult[self] # <<>>
    /\ lastMult[self] # multiplier
    /\ 0 \in touched
    /\ output[1] # FMul(input[1], lastMult[self][1])

(***************************************************************************)
(* SpecPair: two processors built by new() with the same arguments.  Each  *)
(* may serve any number of calls, in any order: calls on the shared pair   *)
(* of slices `vec` (input, and the output as it is before each call), and  *)
(* calls on the other slices `Other`.                                      *)
(*   vec        the shared input and initial output                        *)
(*   result[p]  <<>> until p has returned from a call on vec, then         *)
(*              <<[output |-> the output of p's latest such call,          *)
(*                 prior  |-> whether p had served a call before it]>>     *)
(***************************************************************************)
Other == [input |-> <<NegFifth>>, output |-> <<Zero(0)>>]

Fills == {Fill(v, n) : v \in OutInit, n \in 0..MaxLen}

InitPair ==
    /\ \E g \in Gains, v \in BOOLEAN : InitWith({1, 2}, g, v)
    /\ \E in \in Inputs, out \in Fills : vec = [input |-> in, output |-> out]
    /\ result = [p \in {1, 2} |-> <<>>]
    /\ origin = <<>>

ProcessPair(p, w) ==
    /\ pc = "idle"
    /\ Enter(p, w.input, w.output)
    /\ UNCHANGED scenario

ReturnPair ==
    /\ Exit
    /\ result' =
          IF entry.input = vec.input /\ entry.output = vec.output
          THEN [result EXCEPT ![self] =
                   <<[output |-> output, prior |-> lastMult[self] # <<>>]>>]
          ELSE result
    /\ UNCHANGED <<vec, origin>>

NextPair ==
    \/ \E p \in {1, 2} : ProcessPair(p, vec)
    \/ \E p \in {1, 2} : ProcessPair(p, Other)
    \/ LoopBody
    \/ ReturnPair
    \/ Release

SpecPair == InitPair /\ [][NextPair]_vars

InitChain ==
    /\ \E g \in Gains, v \in BOOLEAN : InitWith({1}, g, v)
    /\ \E in \in Inputs, out \in Fills : vec = [input |-> in, output |-> out]
    /\ result = <<>>
    /\ origin = <<>>

ProcessFirst ==
    /\ pc = "idle"
    /\ origin = <<>>
    /\ Enter(1, vec.input, vec.output)
    /\ origin' = <<vec.input>>
    /\ UNCHANGED <<vec, result>>

ProcessSecond ==
    /\ pc = "returned"
    /\ Len(origin) = 1
    /\ Enter(1, output, vec.output)
    /\ origin' = Append(origin, output)
    /\ UNCHANGED <<vec, result>>

NextChain ==
    \/ ProcessFirst
    \/ ProcessSecond
    \/ LoopBody
    \/ Return

SpecChain == InitChain /\ [][NextChain]_vars

ChainDone ==
    /\ pc = "returned"
    /\ Len(origin) = 2
    /\ Len(origin[1]) = Len(vec.output)
    /\ entry.gain = One
    /\ entry.invert

\* C10, as stated: with gain = 1.0 and invert = true and x, y, z of one
\* length, process(x, y) followed by process(y, z) leaves z equal (f32 `==`)
\* to x at every index.
C10_InvolutionAsStated ==
    ChainDone =>
        /\ Len(output) = Len(origin[1])
        /\ \A k \in 1..Len(output) : FEq(output[k], origin[1][k])

\* C10, amended: ... leaves z equal (f32 `==`) to x at every index whose
\* sample in x is not NaN, and NaN where it is.
C10_InvolutionExceptNaN ==
    ChainDone =>
        /\ Len(output) = Len(origin[1])
        /\ \A k \in 1..Len(output) :
              /\ ~IsNaN(origin[1][k]) => FEq(output[k], origin[1][k])
              /\ IsNaN(origin[1][k]) => IsNaN(output[k])

\* The chain has run on a two-sample x with a zero and a non-zero sample;
\* y holds the negated samples.
C10_Witness ==
    /\ ChainDone
    /\ origin[1] = <<NegFifth, Zero(0)>>
    /\ origin[2] = <<FNeg(NegFifth), Zero(1)>>
    /\ vec.output = <<ThreeQuarters, ThreeQuarters>>

=============================================================================
